---- MODULE Spec2Model ----
(***************************************************************************)
(* A model of the two scripts of the repository:                          *)
(*   - poem_gen.py: the generation retry loop (lines 105-117), and         *)
(*   - english_disgraced_poetry.py: the corpus builder (lines 1-60).       *)
(* Text is a sequence of character codes (10 is the line break), so that   *)
(* isupper, capitalize, sorted, index, count and slicing are computed as   *)
(* Python computes them.                                                   *)
(***************************************************************************)
EXTENDS Integers, Sequences, FiniteSets, TLC

VARIABLES
    \* ---- poem_gen.py
    pc,                     \* position in the script
    number_of_line_breaks,  \* line 105 / 114
    context,                \* line 108
    x,                      \* line 109: the encoded prompt
    y,                      \* line 110: the sampled token sequence
    completion,             \* line 111
    first_end,              \* line 112 (-1: not yet bound)
    generation,             \* line 113
    output_file,            \* content of latest_generation.txt
    error,                  \* the unhandled exception, if any
    loads,                  \* calls of trainer.load_checkpoint()
    words,                  \* calls of r.get_random_word()
    samples,                \* calls of sample()
    minEarlier,             \* least line-break count of the attempts before the current one
    \* ---- english_disgraced_poetry.py
    cpc,                    \* position in the script
    all_files,              \* the (folder, file) pairs the two loops visit, in order
    idx,                    \* number of files visited so far
    mega_string,            \* line 4 / 49
    mini_string,            \* line 30 / 38 / 51
    lines,                  \* line 36
    title,                  \* line 28
    author,                 \* line 29
    reflowed,               \* the values of `line` appended at line 45, for the last file read
    contrib,                \* per visited file, what the visit added to mega_string
    console,                \* what was printed
    the_file                \* content of more_mega_poem_2.txt

genVars == <<pc, number_of_line_breaks, context, x, y, completion, first_end,
             generation, output_file, error, loads, words, samples, minEarlier>>
corpusVars == <<cpc, all_files, idx, mega_string, mini_string, lines, title, author,
                reflowed, contrib, console, the_file>>
vars == <<genVars, corpusVars>>

\* ------------------------------------------------------------------ bounds

\* Iterations of the retry loop explored.
MaxAttempts == 3
\* Line breaks a sampled continuation may hold before its end marker.
MaxBreaks == 17
\* Files the corpus builder visits.
MaxFiles == 2
\* Longest line, in units of the reflow width.
MaxSegments == 3

\* ------------------------------------------------------- program constants

\* while number_of_line_breaks > 18
LineBreakLimit == 18
\* number_of_line_breaks = 1000
InitialLineBreaks == 1000
\* if(len(lines) > 20)
LineLimit == 20
\* int(len(line) / 60), line[:i*60]
ReflowWidth == 60

\* ------------------------------------------------------------ text helpers

\* s * n
Rep(s, n) == [i \in 1..(n * Len(s)) |-> s[((i - 1) % Len(s)) + 1]]

\* s[:n] for 0 <= n
Prefix(s, n) == SubSeq(s, 1, IF n < Len(s) THEN n ELSE Len(s))

\* s[n:] for 0 <= n
Suffix(s, n) == SubSeq(s, n + 1, Len(s))

\* The 0-based positions at which sub occurs in s.
Occurrences(s, sub) ==
    {i \in 0..(Len(s) - Len(sub)) : SubSeq(s, i + 1, i + Len(sub)) = sub}

Min(S) == CHOOSE m \in S : \A n \in S : m <= n

\* s.index(sub): the lowest position, or -1 where Python raises ValueError.
Index(s, sub) == IF Occurrences(s, sub) = {} THEN -1 ELSE Min(Occurrences(s, sub))

\* s.count(sub) for a one-character sub
Count(s, c) == Cardinality({i \in 1..Len(s) : s[i] = c})

NL == <<10>>
END == <<69, 78, 68>>
\* "Poem Start\n"
PoemStart == <<80, 111, 101, 109, 32, 83, 116, 97, 114, 116, 10>>
\* "\nPoetic AI"
Signature == <<10, 80, 111, 101, 116, 105, 99, 32, 65, 73>>

\* ------------------------------------------------------------- CharDataset

\* The training text: "Poem Start\nNone\n\na cat\nEND\nauthor D\n\n\n"
text == <<80, 111, 101, 109, 32, 83, 116, 97, 114, 116, 10, 78, 111, 110, 101,
          10, 10, 97, 32, 99, 97, 116, 10, 69, 78, 68, 10, 97, 117, 116, 104,
          111, 114, 32, 68, 10, 10, 10>>

RECURSIVE Sorted(_)
\* sorted(list(S))
Sorted(S) == IF S = {} THEN <<>> ELSE <<Min(S)>> \o Sorted(S \ {Min(S)})

\* chars = sorted(list(set(data)))
chars == Sorted({text[i] : i \in 1..Len(text)})

vocab_size == Len(chars)

\* stoi = { ch:i for i,ch in enumerate(chars) }
stoi(ch) == (CHOOSE i \in 1..Len(chars) : chars[i] = ch) - 1

\* itos = { i:ch for i,ch in enumerate(chars) }
itos(i) == chars[i + 1]

InVocab(s) == \A i \in 1..Len(s) : \E j \in 1..Len(chars) : chars[j] = s[i]

\* [train_dataset.stoi[s] for s in context]
Encode(s) == [i \in 1..Len(s) |-> stoi(s[i])]

\* ''.join([train_dataset.itos[int(i)] for i in y])
Decode(t) == [i \in 1..Len(t) |-> itos(t[i])]

\* ------------------------------------------------------ external sources

\* r.get_random_word(): "cat", "None" (the library's answer when it has no
\* word, through str()), "co-op" (a character the training text lacks).
RandomWords == { <<99, 97, 116>>, <<78, 111, 110, 101>>, <<99, 111, 45, 111, 112>> }

\* What may follow an end marker: nothing, "\nauthor", "\nEND\nauthor".
Tails == { <<>>, <<10, 97, 117, 116, 104, 111, 114>>,
           <<10, 69, 78, 68, 10, 97, 117, 116, 104, 111, 114>> }

\* The text sample() adds to the prompt: k lines "a", then an end marker or
\* none, then a tail.
Continuations ==
    { Rep(<<97, 10>>, k) \o e \o t : k \in 0..MaxBreaks, e \in {<<>>, END}, t \in Tails }

\* sample(model, x, 2000, ...)[0]: the prompt followed by new tokens.
SampleOutputs(prompt) == { prompt \o Encode(c) : c \in Continuations }

\* What latest_generation.txt held before the run: "old poem"
PriorContent == <<111, 108, 100, 32, 112, 111, 101, 109>>

\* ================================================================ poem_gen.py

GenStart ==
    /\ pc = "test"
    /\ number_of_line_breaks = InitialLineBreaks
    /\ context = <<>>
    /\ x = <<>>
    /\ y = <<>>
    /\ completion = <<>>
    /\ first_end = -1
    /\ generation = <<>>
    /\ output_file = PriorContent
    /\ error = "none"
    /\ loads = 0
    /\ words = 0
    /\ samples = 0
    /\ minEarlier = InitialLineBreaks

\* A loop condition that lets one more line break through.
LoopGuardLoose(n) == n > LineBreakLimit + 1

\* A loop condition that also rejects a text of exactly 18 line breaks.
LoopGuardStrict(n) == n >= LineBreakLimit

\* number_of_line_breaks > 18
LoopGuard(n) == n > LineBreakLimit

\* A retry loop that gives up after two attempts and writes what it has.
TestGivesUp ==
    /\ UNCHANGED corpusVars
    /\ pc = "test"
    /\ pc' = IF LoopGuard(number_of_line_breaks) /\ loads < 2 THEN "load" ELSE "write"
    /\ UNCHANGED <<number_of_line_breaks, context, x, y, completion, first_end,
                   generation, output_file, error, loads, words, samples, minEarlier>>

\* while number_of_line_breaks > 18:
Test ==
    /\ UNCHANGED corpusVars
    /\ pc = "test"
    /\ pc' = IF LoopGuard(number_of_line_breaks) THEN "load" ELSE "write"
    /\ UNCHANGED <<number_of_line_breaks, context, x, y, completion, first_end,
                   generation, output_file, error, loads, words, samples, minEarlier>>

\* A checkpoint loaded on the first iteration only.
LoadCheckpointOnce ==
    /\ UNCHANGED corpusVars
    /\ pc = "load"
    /\ loads < MaxAttempts \/ words < MaxAttempts
    /\ loads' = IF loads = 0 THEN 1 ELSE loads
    /\ minEarlier' = IF number_of_line_breaks < minEarlier
                     THEN number_of_line_breaks ELSE minEarlier
    /\ pc' = "prompt"
    /\ UNCHANGED <<number_of_line_breaks, context, x, y, completion, first_end,
                   generation, output_file, error, words, samples>>

\* trainer.load_checkpoint()
LoadCheckpoint ==
    /\ UNCHANGED corpusVars
    /\ pc = "load"
    /\ loads < MaxAttempts
    /\ loads' = loads + 1
    /\ minEarlier' = IF number_of_line_breaks < minEarlier
                     THEN number_of_line_breaks ELSE minEarlier
    /\ pc' = "prompt"
    /\ UNCHANGED <<number_of_line_breaks, context, x, y, completion, first_end,
                   generation, output_file, error, words, samples>>

\* context = "Poem Start\n" + str(r.get_random_word()) + "\n\n"
\* x = torch.tensor([train_dataset.stoi[s] for s in context], ...)
BuildPrompt ==
    /\ UNCHANGED corpusVars
    /\ pc = "prompt"
    /\ \E w \in RandomWords :
         /\ context' = PoemStart \o w \o NL \o NL
         /\ words' = words + 1
         /\ IF InVocab(context')
            THEN x' = Encode(context') /\ pc' = "sample" /\ error' = error
            ELSE x' = x /\ pc' = "crashed" /\ error' = "KeyError"
    /\ UNCHANGED <<number_of_line_breaks, y, completion, first_end, generation,
                   output_file, loads, samples, minEarlier>>

\* y = sample(model, x, 2000, temperature=1.0, sample=True, top_k=10)[0]
Sample ==
    /\ UNCHANGED corpusVars
    /\ pc = "sample"
    /\ \E t \in SampleOutputs(x) : y' = t
    /\ samples' = samples + 1
    /\ pc' = "decode"
    /\ UNCHANGED <<number_of_line_breaks, context, x, completion, first_end,
                   generation, output_file, error, loads, words, minEarlier>>

\* completion = ''.join([train_dataset.itos[int(i)] for i in y])
DecodeCompletion ==
    /\ UNCHANGED corpusVars
    /\ pc = "decode"
    /\ completion' = Decode(y)
    /\ pc' = "index"
    /\ UNCHANGED <<number_of_line_breaks, context, x, y, first_end, generation,
                   output_file, error, loads, words, samples, minEarlier>>

\* A lookup that answers -1 for a missing marker (str.find) instead of raising.
TruncateWithFind ==
    /\ UNCHANGED corpusVars
    /\ pc = "index"
    /\ first_end' = Index(completion, END)
    /\ generation' = Prefix(completion, first_end' + 3)
    /\ pc' = "count"
    /\ UNCHANGED <<number_of_line_breaks, context, x, y, completion, output_file,
                   error, loads, words, samples, minEarlier>>

\* first_end = completion.index("END")
\* generation = completion[:first_end + 3]
Truncate ==
    /\ UNCHANGED corpusVars
    /\ pc = "index"
    /\ IF Index(completion, END) >= 0
       THEN /\ first_end' = Index(completion, END)
            /\ generation' = Prefix(completion, first_end' + 3)
            /\ pc' = "count"
            /\ error' = error
       ELSE /\ pc' = "crashed"
            /\ error' = "ValueError"
            /\ UNCHANGED <<first_end, generation>>
    /\ UNCHANGED <<number_of_line_breaks, context, x, y, completion, output_file,
                   loads, words, samples, minEarlier>>

\* number_of_line_breaks = generation.count("\n")
CountBreaks ==
    /\ UNCHANGED corpusVars
    /\ pc = "count"
    /\ number_of_line_breaks' = Count(generation, 10)
    /\ pc' = "test"
    /\ UNCHANGED <<context, x, y, completion, first_end, generation, output_file,
                   error, loads, words, samples, minEarlier>>

\* with open(..., 'w') as f: f.write(completion[:first_end + 3] + "\nPoetic AI")
WriteOutput ==
    /\ UNCHANGED corpusVars
    /\ pc = "write"
    /\ output_file' = Prefix(completion, first_end + 3) \o Signature
    /\ pc' = "done"
    /\ UNCHANGED <<number_of_line_breaks, context, x, y, completion, first_end,
                   generation, error, loads, words, samples, minEarlier>>

\* The corpus builder's variables while poem_gen.py runs.
CorpusIdle ==
    /\ cpc = "idle"
    /\ all_files = <<>>
    /\ idx = 0
    /\ mega_string = <<>>
    /\ mini_string = <<>>
    /\ lines = <<>>
    /\ title = <<>>
    /\ author = <<>>
    /\ reflowed = <<>>
    /\ contrib = <<>>
    /\ console = <<>>
    /\ the_file = <<>>

GenInit == GenStart /\ CorpusIdle

GenNext ==
    \/ Test
    \/ LoadCheckpoint
    \/ BuildPrompt
    \/ Sample
    \/ DecodeCompletion
    \/ Truncate
    \/ CountBreaks
    \/ WriteOutput

GenSpec == GenInit /\ [][GenNext]_vars

\* ================================================ english_disgraced_poetry.py

RECURSIVE Flatten(_)
\* ''.join(parts)
Flatten(parts) == IF parts = <<>> THEN <<>> ELSE Head(parts) \o Flatten(Tail(parts))

\* ch.isupper()
IsUpper(ch) == ch \in 65..90

IsLower(ch) == ch \in 97..122

\* s.capitalize(): the first character in upper case, the others in lower case
Capitalize(s) ==
    [i \in 1..Len(s) |->
        IF i = 1 THEN (IF IsLower(s[i]) THEN s[i] - 32 ELSE s[i])
        ELSE (IF IsUpper(s[i]) THEN s[i] + 32 ELSE s[i])]

RECURSIVE Split(_, _)
\* s.split(sep)
Split(s, sep) ==
    IF Occurrences(s, sep) = {} THEN <<s>>
    ELSE LET i == Min(Occurrences(s, sep))
         IN  <<Prefix(s, i)>> \o Split(Suffix(s, i + Len(sep)), sep)

Poems == <<80, 111, 101, 109, 115>>
Poemby == <<80, 111, 101, 109, 98, 121>>
Dot == <<46>>
\* "\nEND\n"
EndLine == <<10, 69, 78, 68, 10>>
\* print("yikes")
Yikes == <<121, 105, 107, 101, 115>>

\* new_file_name = file_name[0]
\* for i in range(1, len(file_name)):
\*     if(file_name[i].isupper()): new_file_name += " " + file_name[i]
\*     else: new_file_name += file_name[i]
SpaceUpper(file_name) ==
    <<file_name[1]>> \o
    Flatten([i \in 1..(Len(file_name) - 1) |->
                IF IsUpper(file_name[i + 1]) THEN <<32, file_name[i + 1]>>
                ELSE <<file_name[i + 1]>>])

\* An author taken without dropping its first character.
ParseFileNameKeepFirst(folder, file) ==
    LET parts == Split(file, Capitalize(folder) \o Poems)
    IN  IF Len(parts) < 2 \/ parts[2] = <<>>
        THEN [ok |-> FALSE, titled |-> FALSE, title |-> <<>>, author |-> <<>>]
        ELSE LET poem_info == Split(SpaceUpper(parts[2]), Poemby)
             IN  IF Len(poem_info) < 2
                 THEN [ok |-> FALSE, titled |-> TRUE, title |-> poem_info[1],
                       author |-> <<>>]
                 ELSE [ok |-> TRUE, titled |-> TRUE, title |-> poem_info[1],
                       author |-> Split(poem_info[2], Dot)[1]]

\* Lines 13-29: ok is FALSE where an index is out of range (the outer except);
\* titled tells whether line 28 was reached.
ParseFileName(folder, file) ==
    LET parts == Split(file, Capitalize(folder) \o Poems)
    IN  IF Len(parts) < 2 \/ parts[2] = <<>>
        THEN [ok |-> FALSE, titled |-> FALSE, title |-> <<>>, author |-> <<>>]
        ELSE LET poem_info == Split(SpaceUpper(parts[2]), Poemby)
             IN  IF Len(poem_info) < 2
                 THEN [ok |-> FALSE, titled |-> TRUE, title |-> poem_info[1],
                       author |-> <<>>]
                 ELSE [ok |-> TRUE, titled |-> TRUE, title |-> poem_info[1],
                       author |-> Suffix(Split(poem_info[2], Dot)[1], 1)]

\* A filter that also drops a poem of exactly 20 lines.
TooLongFrom20(ls) == Len(ls) >= LineLimit

\* if(len(lines) > 20)
TooLong(ls) == Len(ls) > LineLimit

RECURSIVE ReflowFrom(_, _, _)
\* for i in range(from, initial_length): line = line[:i*60] + "\n" + line[i*60:]
ReflowFrom(line, i, initial_length) ==
    IF i >= initial_length THEN line
    ELSE ReflowFrom(Prefix(line, i * ReflowWidth) \o NL \o Suffix(line, i * ReflowWidth),
                    i + 1, initial_length)

\* initial_length = int(len(line) / 60); for i in range(1, initial_length): ...
Reflow(line) == ReflowFrom(line, 1, Len(line) \div ReflowWidth)

\* mini_string = "Poem Start\n"; mini_string += title + "\n\n";
\* mini_string += line (each); mini_string += "\nEND\n" + author + "\n\n\n"
Block(t, a, body) ==
    ((PoemStart \o t \o NL \o NL) \o Flatten(body)) \o (EndLine \o a \o NL \o NL \o NL)

\* ---------------------------------------------------------- the file system

\* "a cat\n"
ShortLine == <<97, 32, 99, 97, 116, 10>>

\* A line of n characters, its line break included.
LongLine(n) == Rep(<<97>>, n - 1) \o NL

LineLengths ==
    { k * ReflowWidth + d : k \in 1..MaxSegments, d \in {-1, 0, 1} }

\* What a poem file may hold: no line, one short line, 20 or 21 short lines,
\* or one long line.
Contents ==
    { <<>>, <<ShortLine>>, [i \in 1..LineLimit |-> ShortLine],
      [i \in 1..(LineLimit + 1) |-> ShortLine] }
    \cup { <<LongLine(n)>> : n \in LineLengths }

\* folder name capitalized + "Poems" + TitleCaseWords + "Poemby" + Author + extension
ConventionName(folder, tw, au) ==
    Capitalize(folder) \o Poems \o Flatten(tw) \o Poemby \o au \o <<46, 116, 120, 116>>

Nature == <<110, 97, 116, 117, 114, 101>>
The == <<84, 104, 101>>
Old == <<79, 108, 100>>
Cat == <<67, 97, 116>>
\* "natureCatsPoemsTheOldCatPoemby JaneDoe.txt"
ExampleName ==
    <<110, 97, 116, 117, 114, 101, 67, 97, 116, 115, 80, 111, 101, 109, 115, 84,
      104, 101, 79, 108, 100, 67, 97, 116, 80, 111, 101, 109, 98, 121, 32, 74,
      97, 110, 101, 68, 111, 101, 46, 116, 120, 116>>

File(name, kind, tw, au, readable, ls) ==
    [folder |-> Nature, name |-> name, kind |-> kind, tw |-> tw, au |-> au,
     readable |-> readable, lines |-> ls]

\* Files named by the convention, the marker at the start only:
\* "NaturePoemsTheOldCatPoemby JaneDoe.txt" with each content, or unreadable,
\* and "NaturePoemsOdePoembyPoe.txt".
ConventionFiles ==
    { File(ConventionName(Nature, <<The, Old, Cat>>, <<32, 74, 97, 110, 101, 68, 111, 101>>),
           "convention", <<The, Old, Cat>>, <<32, 74, 97, 110, 101, 68, 111, 101>>,
           TRUE, c) : c \in Contents }
    \cup
    { File(ConventionName(Nature, <<The, Old, Cat>>, <<32, 74, 97, 110, 101, 68, 111, 101>>),
           "convention", <<The, Old, Cat>>, <<32, 74, 97, 110, 101, 68, 111, 101>>,
           FALSE, <<>>),
      File(ConventionName(Nature, <<<<79, 100, 101>>>>, <<80, 111, 101>>),
           "convention", <<<<79, 100, 101>>>>, <<80, 111, 101>>, TRUE, <<ShortLine>>) }

\* A name of the convention whose title holds the folder's marker:
\* "NaturePoemsMyNaturePoemsPoembyPoe.txt"
MarkerTitleFiles ==
    { File(ConventionName(Nature, <<<<77, 121>>, <<78, 97, 116, 117, 114, 101>>, Poems>>,
                          <<80, 111, 101>>),
           "convention_marker", <<<<77, 121>>, <<78, 97, 116, 117, 114, 101>>, Poems>>,
           <<80, 111, 101>>, TRUE, <<ShortLine>>) }

\* Other files: the example name, "readme.txt", "NaturePoemsTheOldCat.txt"
\* (no "Poemby") and "natureCatsNaturePoems" (nothing after the marker).
OtherFiles ==
    { File(ExampleName, "example", <<The, Old, Cat>>, <<74, 97, 110, 101, 68, 111, 101>>,
           TRUE, <<ShortLine>>),
      File(<<114, 101, 97, 100, 109, 101, 46, 116, 120, 116>>, "other", <<>>, <<>>,
           TRUE, <<ShortLine>>),
      File(<<78, 97, 116, 117, 114, 101, 80, 111, 101, 109, 115, 84, 104, 101, 79,
             108, 100, 67, 97, 116, 46, 116, 120, 116>>, "other", <<>>, <<>>,
           TRUE, <<ShortLine>>),
      File(<<110, 97, 116, 117, 114, 101, 67, 97, 116, 115, 78, 97, 116, 117, 114,
             101, 80, 111, 101, 109, 115>>, "other", <<>>, <<>>, FALSE, <<>>) }

FileUniverse == ConventionFiles \cup MarkerTitleFiles \cup OtherFiles

\* ------------------------------------------------------------------ actions

\* The gen script's variables while the corpus builder runs.
GenIdle ==
    /\ pc = "idle"
    /\ number_of_line_breaks = InitialLineBreaks
    /\ context = <<>>
    /\ x = <<>>
    /\ y = <<>>
    /\ completion = <<>>
    /\ first_end = -1
    /\ generation = <<>>
    /\ output_file = PriorContent
    /\ error = "none"
    /\ loads = 0
    /\ words = 0
    /\ samples = 0
    /\ minEarlier = InitialLineBreaks

\* mega_string = ""; the listings of os.listdir, flattened in the order of the
\* two loops.
CorpusStart ==
    /\ cpc = "loop"
    /\ \E n \in 0..MaxFiles : all_files \in [1..n -> FileUniverse]
    /\ idx = 0
    /\ mega_string = <<>>
    /\ mini_string = <<>>
    /\ lines = <<>>
    /\ title = <<>>
    /\ author = <<>>
    /\ reflowed = <<>>
    /\ contrib = <<>>
    /\ console = <<>>
    /\ the_file = <<>>

CorpusInit == CorpusStart /\ GenIdle

\* The file the loops are at.
file == all_files[idx + 1]

parsed == ParseFileName(file.folder, file.name)

\* Lines 13-29 raise: except: print("yikes"); continue
SkipUnparsable ==
    /\ UNCHANGED genVars
    /\ cpc = "loop"
    /\ idx < Len(all_files)
    /\ ~parsed.ok
    /\ title' = IF parsed.titled THEN parsed.title ELSE title
    /\ console' = Append(console, Yikes)
    /\ contrib' = Append(contrib, <<>>)
    /\ idx' = idx + 1
    /\ UNCHANGED <<cpc, all_files, mega_string, mini_string, lines, author, reflowed, the_file>>

\* An inner handler that keeps what the file had built so far.
SkipUnreadableKeepsPartial ==
    /\ UNCHANGED genVars
    /\ cpc = "loop"
    /\ idx < Len(all_files)
    /\ parsed.ok
    /\ ~file.readable
    /\ title' = parsed.title
    /\ author' = parsed.author
    /\ mini_string' = PoemStart \o title' \o NL \o NL
    /\ mega_string' = mega_string \o mini_string'
    /\ contrib' = Append(contrib, Suffix(mega_string', Len(mega_string)))
    /\ idx' = idx + 1
    /\ UNCHANGED <<cpc, all_files, lines, reflowed, console, the_file>>

\* open(...) or readlines() raises: except: mini_string = ""; continue
SkipUnreadable ==
    /\ UNCHANGED genVars
    /\ cpc = "loop"
    /\ idx < Len(all_files)
    /\ parsed.ok
    /\ ~file.readable
    /\ title' = parsed.title
    /\ author' = parsed.author
    /\ mini_string' = <<>>
    /\ contrib' = Append(contrib, <<>>)
    /\ idx' = idx + 1
    /\ UNCHANGED <<cpc, all_files, mega_string, lines, reflowed, console, the_file>>

\* if(len(lines) > 20): mini_string = ""; continue
SkipTooLong ==
    /\ UNCHANGED genVars
    /\ cpc = "loop"
    /\ idx < Len(all_files)
    /\ parsed.ok
    /\ file.readable
    /\ TooLong(file.lines)
    /\ title' = parsed.title
    /\ author' = parsed.author
    /\ lines' = file.lines
    /\ mini_string' = <<>>
    /\ reflowed' = <<>>
    /\ contrib' = Append(contrib, <<>>)
    /\ idx' = idx + 1
    /\ UNCHANGED <<cpc, all_files, mega_string, console, the_file>>

\* Lines 30-49 for a poem that is kept: mega_string += mini_string
AppendBlock ==
    /\ UNCHANGED genVars
    /\ cpc = "loop"
    /\ idx < Len(all_files)
    /\ parsed.ok
    /\ file.readable
    /\ ~TooLong(file.lines)
    /\ title' = parsed.title
    /\ author' = parsed.author
    /\ lines' = file.lines
    /\ reflowed' = [i \in 1..Len(lines') |-> Reflow(lines'[i])]
    /\ mini_string' = Block(title', author', reflowed')
    /\ mega_string' = mega_string \o mini_string'
    /\ contrib' = Append(contrib, Suffix(mega_string', Len(mega_string)))
    /\ idx' = idx + 1
    /\ UNCHANGED <<cpc, all_files, console, the_file>>

\* print(mega_string)
PrintAll ==
    /\ UNCHANGED genVars
    /\ cpc = "loop"
    /\ idx = Len(all_files)
    /\ console' = Append(console, mega_string)
    /\ cpc' = "write"
    /\ UNCHANGED <<all_files, idx, mega_string, mini_string, lines, title, author,
                   reflowed, contrib, the_file>>

\* the_file = open("more_mega_poem_2.txt", "w"); the_file.write(mega_string); the_file.close()
WriteFile ==
    /\ UNCHANGED genVars
    /\ cpc = "write"
    /\ the_file' = mega_string
    /\ cpc' = "done"
    /\ UNCHANGED <<all_files, idx, mega_string, mini_string, lines, title, author,
                   reflowed, contrib, console>>

CorpusNext ==
    \/ SkipUnparsable
    \/ SkipUnreadable
    \/ SkipTooLong
    \/ AppendBlock
    \/ PrintAll
    \/ WriteFile

CorpusSpec == CorpusInit /\ [][CorpusNext]_vars

\* ------------------------------------------- properties: generation loop

\* The text written without its signature line.
WrittenText == Prefix(output_file, Len(output_file) - Len(Signature))

Written == output_file # PriorContent

\* C1: whenever the retry loop has exited normally, the accepted text (the
\* completion cut just after its first "END", prompt included) holds at most
\* 18 line breaks, and no text of more than 18 line breaks is ever written.
C1_AcceptedWithinLimit ==
    /\ pc \in {"write", "done"} =>
         Count(Prefix(completion, Index(completion, END) + 3), 10) <= 18
    /\ Written =>
         /\ output_file = WrittenText \o Signature
         /\ Count(WrittenText, 10) <= 18

\* An output of exactly 18 line breaks, written after a rejected attempt.
C1_Witness ==
    /\ pc = "done"
    /\ Written
    /\ Count(WrittenText, 10) = 18
    /\ samples >= 2

C2_State ==
    /\ pc \in {"write", "done"} =>
         /\ number_of_line_breaks <= 18
         /\ number_of_line_breaks = Count(generation, 10)
         /\ generation = Prefix(completion, Index(completion, END) + 3)
         /\ minEarlier > 18
         /\ words = samples /\ samples = loads
    /\ pc = "done" => output_file = generation \o Signature
    /\ pc # "done" => ~Written

C2_Step ==
    /\ (pc = "test" /\ number_of_line_breaks <= 18) => pc' = "write"
    /\ (pc = "test" /\ number_of_line_breaks > 18) => pc' = "load"
    /\ pc \in {"write", "done"} =>
         /\ samples' = samples /\ words' = words /\ loads' = loads
         /\ completion' = completion
    /\ (pc = "load" /\ pc' = "prompt") => ~Written'

\* C2: the loop ends on the first attempt whose truncated text has at most
\* 18 line breaks: nothing is sampled after it, the file holds that text and
\* the signature line, and every earlier attempt had more than 18 line breaks,
\* was not written, and was followed by a new random word and a new sample.
C2_FirstAcceptedWins == [](C2_State) /\ [][C2_Step]_vars

\* An accepted third attempt, written out.
C2_Witness ==
    /\ pc = "done"
    /\ samples = 3
    /\ number_of_line_breaks <= 18
    /\ output_file = generation \o Signature

C8_State ==
    /\ error = "ValueError" =>
         /\ pc = "crashed"
         /\ Index(completion, END) = -1
         /\ ~Written
    /\ pc \in {"count", "write", "done"} => Index(completion, END) >= 0
    /\ (pc = "test" /\ samples > 0) => Index(completion, END) >= 0

C8_Step ==
    /\ (pc = "index" /\ Occurrences(completion, END) = {}) =>
         /\ pc' = "crashed"
         /\ output_file' = output_file
    /\ pc = "crashed" => UNCHANGED vars

\* C8: a completion without "END" makes the lookup fail and ends the program
\* in that iteration: nothing more is sampled, the loop is never left through
\* its condition, and the output file stays as it was.
C8_MissingEndCrashes == [](C8_State) /\ [][C8_Step]_vars

\* A second attempt that lacks the marker.
C8_Witness ==
    /\ pc = "crashed"
    /\ error = "ValueError"
    /\ samples = 2
    /\ Occurrences(completion, END) = {}

C9_State ==
    /\ pc \in {"write", "done"} => number_of_line_breaks <= 18
    /\ Written => pc = "done"
    /\ (samples >= 1 /\ pc \in {"test", "load", "write", "done"}
          /\ number_of_line_breaks > 18 /\ minEarlier > 18) =>
         (pc \in {"test", "load"} /\ ~Written)

C9_Step ==
    (pc = "test" /\ number_of_line_breaks > 18) =>
        /\ pc' = "load"
        /\ output_file' = output_file

\* C9: the retry loop has no attempt limit: however many attempts were
\* rejected, a rejected attempt leads to a new iteration, and the loop is
\* left, and the output written, only after an attempt of at most 18 breaks.
C9_NoAttemptLimit == [](C9_State) /\ [][C9_Step]_vars

\* Every attempt explored was rejected and the loop is about to go on.
C9_Witness ==
    /\ pc = "load"
    /\ samples = MaxAttempts
    /\ number_of_line_breaks > 18
    /\ minEarlier > 18
    /\ ~Written

\* C10: the checkpoint is loaded once per iteration, before the prompt is
\* built and the sample drawn: loads, prompts and samples agree in number
\* but for the iteration under way, and a run that ends has loaded at least once.
C10_LoadPerAttempt ==
    /\ pc = "prompt" => loads = words + 1 /\ loads = samples + 1
    /\ pc = "sample" => loads = words /\ loads = samples + 1
    /\ pc \in {"decode", "index", "count", "test", "load", "write", "done"} =>
         loads = words /\ loads = samples
    /\ pc = "crashed" => loads = words /\ loads >= 1
    /\ pc \in {"write", "done"} => loads >= 1

\* A third sample drawn after a third load.
C10_Witness ==
    /\ pc = "decode"
    /\ loads = 3
    /\ samples = 3

\* ------------------------------------------- properties: corpus builder

\* The files visited so far that lines 13-29 can parse.
Parsable(f) == f.kind = "convention"

YikesCount == Cardinality({i \in 1..Len(console) : console[i] = Yikes})

UnparsableVisited == Cardinality({i \in 1..idx : ~Parsable(all_files[i])})

\* C3: a poem file of more than 20 lines adds nothing to the output buffer,
\* a file of exactly 20 lines is not excluded, and every block of the buffer
\* comes from a poem of at most 20 lines.
C3_LongPoemsDropped ==
    /\ Len(contrib) = idx
    /\ mega_string = Flatten(contrib)
    /\ \A i \in 1..idx :
         LET f == all_files[i]
         IN  /\ (f.readable /\ Len(f.lines) > 20) => contrib[i] = <<>>
             /\ (Parsable(f) /\ f.readable /\ Len(f.lines) = 20) => contrib[i] # <<>>
             /\ contrib[i] # <<>> => (f.readable /\ Len(f.lines) <= 20)

\* A poem of 21 lines dropped, then a poem of 20 lines kept.
C3_Witness ==
    /\ idx = 2
    /\ all_files[1].readable /\ Len(all_files[1].lines) = 21 /\ Parsable(all_files[1])
    /\ Len(all_files[2].lines) = 20
    /\ contrib[1] = <<>>
    /\ contrib[2] # <<>>
    /\ mega_string = contrib[2]

\* The title the builder derives from title-case words: each word and a space.
SpacedTitle(tw) == Flatten([i \in 1..Len(tw) |-> tw[i] \o <<32>>])

\* The author the builder derives from the text between "Poemby" and the
\* extension: a space before each capital, the first character dropped.
SpacedAuthor(au) ==
    Suffix(Flatten([i \in 1..Len(au) |->
                      IF IsUpper(au[i]) THEN <<32, au[i]>> ELSE <<au[i]>>]), 1)

\* The name is the capitalized folder name, "Poems", title-case words,
\* "Poemby", an author text and an extension.
FollowsConvention(f) == f.kind \in {"convention", "convention_marker"}

\* C4: a poem file of at most 20 lines whose name follows the convention adds
\* exactly one block: "Poem Start", the parsed title, the body lines as the
\* reflow leaves them, "END", and the parsed author after "END".
C4_OneBlockPerPoem ==
    \A i \in 1..idx :
        LET f == all_files[i]
        IN  (FollowsConvention(f) /\ f.readable /\ Len(f.lines) <= 20) =>
              /\ contrib[i] =
                   PoemStart \o SpacedTitle(f.tw) \o <<10, 10>>
                   \o Flatten([j \in 1..Len(f.lines) |-> Reflow(f.lines[j])])
                   \o <<10>> \o END \o <<10>> \o SpacedAuthor(f.au) \o <<10, 10, 10>>
              /\ Cardinality(Occurrences(contrib[i], PoemStart)) = 1
              /\ Cardinality(Occurrences(contrib[i], EndLine)) = 1

\* A line cut into ceil(L/60) segments of at most 60 characters, a line break
\* after each segment but the last.
C5_Chunked(line) ==
    LET n == (Len(line) + 59) \div 60
    IN  Flatten([j \in 1..n |->
            SubSeq(line, (j - 1) * 60 + 1,
                   IF j * 60 < Len(line) THEN j * 60 ELSE Len(line))
            \o (IF j < n THEN <<10>> ELSE <<>>)])

\* C5: every retained line of length L is split into ceil(L/60) segments of
\* at most 60 characters, each but the last followed by an inserted line break.
C5_ReflowEvery60 ==
    \A i \in 1..Len(reflowed) : reflowed[i] = C5_Chunked(lines[i])

\* words separated by single spaces
JoinedTitle(tw) ==
    Flatten([i \in 1..Len(tw) |-> IF i = 1 THEN tw[i] ELSE <<32>> \o tw[i]])

\* the Author string, without the space that may follow "Poemby"
PlainAuthor(au) == IF au # <<>> /\ au[1] = 32 THEN Suffix(au, 1) ELSE au

\* C6 (as stated): for a name that follows the convention the parsed title is
\* the title words separated by single spaces and the parsed author is the
\* Author string; natureCatsPoemsTheOldCatPoemby JaneDoe.txt in folder nature
\* parses to "The Old Cat" and "JaneDoe" and is not skipped.
C6_FilenameParsing ==
    idx > 0 =>
        LET f == all_files[idx]
        IN  (FollowsConvention(f) \/ f.kind = "example") =>
              /\ title = JoinedTitle(f.tw)
              /\ author = PlainAuthor(f.au)
              /\ cpc = "loop" => (console = <<>> \/ console[Len(console)] # Yikes)

\* C6 (amended): for a name made of the capitalized folder name, "Poems",
\* title-case words, "Poemby", an author text and an extension, the parsed
\* title is the words each followed by one space, and the parsed author is
\* the author text with a space before each capital letter and its first
\* character dropped, unless the title words hold the marker again, in which
\* case the file is skipped with the console message;
\* natureCatsPoemsTheOldCatPoemby JaneDoe.txt in folder nature holds no
\* "NaturePoems" and is skipped with the console message too.
C6_FilenameParsingAmended ==
    /\ YikesCount = UnparsableVisited
    /\ idx > 0 =>
         LET f == all_files[idx]
         IN  /\ f.kind = "convention" =>
                  /\ title = SpacedTitle(f.tw)
                  /\ author = SpacedAuthor(f.au)
             /\ f.kind \in {"example", "convention_marker"} =>
                  /\ contrib[idx] = <<>>
                  /\ cpc = "loop" => console[Len(console)] = Yikes

\* The example name skipped, then "NaturePoemsTheOldCatPoemby JaneDoe.txt"
\* parsed to "The Old Cat " and " Jane Doe".
C6_Witness ==
    /\ idx = 2
    /\ all_files[1].kind = "example"
    /\ all_files[2].kind = "convention"
    /\ all_files[2].tw = <<The, Old, Cat>>
    /\ title = <<84, 104, 101, 32, 79, 108, 100, 32, 67, 97, 116, 32>>
    /\ author = <<32, 74, 97, 110, 101, 32, 68, 111, 101>>
    /\ console = <<Yikes>>

C7_Failed(f) == ~Parsable(f) \/ ~f.readable

C7_State ==
    /\ \A i \in 1..idx : C7_Failed(all_files[i]) => contrib[i] = <<>>
    /\ mega_string = Flatten(contrib)
    /\ YikesCount = UnparsableVisited
    /\ cpc = "done" => (idx = Len(all_files) /\ the_file = mega_string)

C7_Step ==
    (cpc = "loop" /\ idx < Len(all_files)) =>
        /\ idx' = idx + 1
        /\ cpc' = "loop"
        /\ C7_Failed(all_files[idx + 1]) => mega_string' = mega_string

\* C7: a parsing or read failure skips exactly that file: the buffer is left
\* as it was, the next file is processed, nothing is propagated, and the
\* console message is printed for filename parsing failures only.
C7_FailuresSkipOneFile == [](C7_State) /\ [][C7_Step]_vars

\* An unreadable file skipped without a message, the next file kept, the
\* corpus written.
C7_Witness ==
    /\ cpc = "done"
    /\ idx = 2
    /\ Parsable(all_files[1]) /\ ~all_files[1].readable
    /\ contrib[1] = <<>>
    /\ contrib[2] # <<>>
    /\ YikesCount = 0
    /\ the_file = contrib[2]

====
